---------------------------- MODULE Spec2Model ----------------------------
(***************************************************************************)
(* Model of feast's OnDemandFeatureView                                    *)
(* (sdk/python/feast/on_demand_feature_view.py): the object's four fields, *)
(* to_proto / from_proto, get_transformed_features_df and                  *)
(* infer_features_from_batch_source.                                       *)
(*                                                                         *)
(* A pandas DataFrame is a sequence of columns [name, dtype, data]: the    *)
(* column order is the frame's column order, dtype is the native (pandas)  *)
(* type name and data is a token standing for the column's row values      *)
(* (0 is the zero-row series of the probe frame).                          *)
(***************************************************************************)
EXTENDS Integers, Sequences, FiniteSets, TLC

(* Largest number of entries of the `inputs` dict of a definition. *)
MaxInputs == 2

VARIABLES
    odfv,       \* the OnDemandFeatureView object: name, features, inputs, udf
    df,         \* the caller's DataFrame object (df_with_features)
    proto,      \* the last OnDemandFeatureViewProto produced by to_proto
    encoded,    \* the fields of the object at the moment to_proto read them
    call,       \* the last call: its name, the full_feature_names argument,
                \* and whether the calling process resolves the udf's body
    outcome,    \* how the last call ended: [kind, err, missing, view]
    ret,        \* the value the last call returned, as its caller observes it
    df_before,  \* the caller's DataFrame immediately before the last call
    udf_arg,    \* the DataFrame handed to the udf, at the moment of invocation
    udf_out,    \* <<the DataFrame the udf returned, at the moment it returned>>
    odfv_before,\* the object's fields immediately before the last call
    inferred    \* an infer_features_from_batch_source call has returned normally

vars == <<odfv, df, proto, encoded, call, outcome, ret, df_before, udf_arg,
          udf_out, odfv_before, inferred>>

Range(s) == {s[i] : i \in DOMAIN s}

-----------------------------------------------------------------------------
(* DataFrame operations used by the source. *)

Column(n, t, d) == [name |-> n, dtype |-> t, data |-> d]

(* df.keys() / df.columns as a set of names. *)
Keys(b) == {b[i].name : i \in DOMAIN b}

IndexOf(b, n) == CHOOSE i \in DOMAIN b : b[i].name = n

(* df[n] *)
GetItem(b, n) == b[IndexOf(b, n)]

(* df[n] = series: overwrites the column in place, or appends a new one. *)
SetItem(b, n, t, d) ==
    IF n \in Keys(b)
    THEN [b EXCEPT ![IndexOf(b, n)] = Column(n, t, d)]
    ELSE Append(b, Column(n, t, d))

(* df.drop(columns=labels, inplace=True) raises KeyError when a label is    *)
(* not a column; otherwise it removes every listed column.                  *)
DropRaises(b, labels) == \E n \in Range(labels) : n \notin Keys(b)

Drop(b, labels) == SelectSeq(b, LAMBDA c : c.name \notin Range(labels))

-----------------------------------------------------------------------------
(* The data model: Feature, ValueType, FeatureView (feast.feature,          *)
(* feast.value_type, feast.feature_view) and the type maps                  *)
(* (feast.type_map).                                                        *)

(* Feature(name, dtype, labels); labels is a dict, here a set of            *)
(* <<key, value>> pairs, and defaults to the empty dict.                    *)
Feature(n, t, l) == [name |-> n, dtype |-> t, labels |-> l]

(* Feature.__eq__: two features are equal when name and value type agree.   *)
FeatureEq(a, b) == a.name = b.name /\ a.dtype = b.dtype

(* `feature in list`: Python's membership test uses __eq__. *)
FeatureIn(f, fs) == \E i \in DOMAIN fs : FeatureEq(f, fs[i])

(* ValueType enum numbers, the value_type field of the Feature proto. *)
ValueTypeNumber == [STRING |-> 2, INT64 |-> 4, DOUBLE |-> 5, FLOAT |-> 6]

ValueTypes == DOMAIN ValueTypeNumber

(* ValueType(number): the enum member with that number. *)
ValueTypeOf(k) == CHOOSE t \in ValueTypes : ValueTypeNumber[t] = k

(* feast_value_type_to_pandas_type followed by pd.Series(dtype=...): the    *)
(* native dtype of an empty series made for a value type.                   *)
FeastValueTypeToPandasType ==
    [STRING |-> "object", INT64 |-> "int64", DOUBLE |-> "float64",
     FLOAT |-> "float64"]

(* python_type_to_feast_value_type(name, type_name=str(dtype)). *)
PythonTypeToFeastValueType ==
    [object |-> "STRING", int64 |-> "INT64", float64 |-> "DOUBLE",
     float32 |-> "FLOAT"]

(* A FeatureView, as far as this class reads it: name and features. *)
FeatureView(n, fs) == [name |-> n, features |-> fs]

(* Feature.to_proto *)
FeatureToProto(f) ==
    [name |-> f.name, value_type |-> ValueTypeNumber[f.dtype],
     labels |-> f.labels]

(* FeatureView.to_proto / FeatureView.from_proto *)
FeatureViewToProto(fv) ==
    [spec |-> [name |-> fv.name,
               features |-> [i \in DOMAIN fv.features |->
                                FeatureToProto(fv.features[i])]]]

FeatureViewFromProto(p) ==
    FeatureView(p.spec.name,
                [i \in DOMAIN p.spec.features |->
                    Feature(p.spec.features[i].name,
                            ValueTypeOf(p.spec.features[i].value_type),
                            p.spec.features[i].labels)])

(* dill.dumps(udf, recurse=True) / dill.loads(body): the body is an opaque  *)
(* byte string that captures the function and what it refers to.            *)
DillDumps(udf) == <<"dill", udf.name, udf.kind>>

DillLoads(body) == [name |-> body[2], kind |-> body[3]]

(* What dill.loads raises when the body refers to something the loading     *)
(* process cannot resolve.                                                  *)
DillErrors == {"AttributeError", "ModuleNotFoundError"}

-----------------------------------------------------------------------------
(* The user defined functions a definition may carry.  Udf(u, b) is the     *)
(* effect of u.__call__(b) on the frame object b:                           *)
(*   raised  the call raised err instead of returning;                     *)
(*   after   the frame object b itself after the call (in-place changes);   *)
(*   same    the returned object is b itself, not a new frame;              *)
(*   out     the returned frame when it is a new object.                    *)

Twice(d) == 2 * d

UdfResult(raised, err, after, same, out) ==
    [raised |-> raised, err |-> err, after |-> after, same |-> same,
     out |-> out]

UdfKinds ==
    {"double_x", "identity", "add_y_inplace", "no_columns", "raises"}

Udf(u, b) ==
    CASE u.kind = "double_x" ->
            \* out = pd.DataFrame(); out["y"] = b["x"] * 2; return out
            IF "x" \in Keys(b)
            THEN UdfResult(FALSE, "", b, FALSE,
                     <<Column("y", GetItem(b, "x").dtype,
                               Twice(GetItem(b, "x").data))>>)
            ELSE UdfResult(TRUE, "KeyError", b, FALSE, <<>>)
      [] u.kind = "identity" ->
            \* return b
            UdfResult(FALSE, "", b, TRUE, <<>>)
      [] u.kind = "add_y_inplace" ->
            \* b["y"] = b["x"] * 2; return b
            IF "x" \in Keys(b)
            THEN UdfResult(FALSE, "",
                     SetItem(b, "y", GetItem(b, "x").dtype,
                             Twice(GetItem(b, "x").data)),
                     TRUE, <<>>)
            ELSE UdfResult(TRUE, "KeyError", b, FALSE, <<>>)
      [] u.kind = "no_columns" ->
            \* return pd.DataFrame()
            UdfResult(FALSE, "", b, FALSE, <<>>)
      [] u.kind = "raises" ->
            \* raise ValueError
            UdfResult(TRUE, "ValueError", b, FALSE, <<>>)

(* The frame the udf call evaluates to. *)
Returned(r) == IF r.same THEN r.after ELSE r.out

-----------------------------------------------------------------------------
(* The definitions and the frames the model ranges over. *)

FV_v == FeatureView("v", <<Feature("x", "FLOAT", {})>>)

FV_w == FeatureView("w", <<Feature("x", "INT64", {}),
                            Feature("z", "STRING", {})>>)

(* Entries of the `inputs` dict: the key and the feature view under it.     *)
Bindings ==
    {[key |-> "v", fv |-> FV_v], [key |-> "a", fv |-> FV_w],
     [key |-> "w", fv |-> FV_w]}

(* A dict keeps insertion order: a sequence of entries with distinct keys.  *)
InputDicts ==
    {s \in UNION {[1..n -> Bindings] : n \in 0..MaxInputs} :
        \A i, j \in DOMAIN s : i # j => s[i].key # s[j].key}

DeclaredFeatures ==
    {<<>>,
     <<Feature("y", "DOUBLE", {})>>,
     <<Feature("y", "STRING", {<<"team", "ml">>})>>,
     <<Feature("x", "DOUBLE", {}), Feature("c", "INT64", {})>>}

OnDemandFeatureView(n, fs, ins, udf) ==
    [name |-> n, features |-> fs, inputs |-> ins, udf |-> udf]

Definitions ==
    {OnDemandFeatureView("odfv", fs, ins, [name |-> "transform", kind |-> k]) :
        fs \in DeclaredFeatures, ins \in InputDicts, k \in UdfKinds}

(* Columns a retrieval frame may carry, in frame order; each column's data  *)
(* is a token of its own.                                                   *)
FrameColumns ==
    <<Column("v__x", "float64", 1), Column("w__x", "int64", 3),
      Column("a__z", "object", 5), Column("x", "float64", 7)>>

Frames ==
    {SelectSeq(FrameColumns, LAMBDA c : c.name \in S) :
        S \in SUBSET Keys(FrameColumns)}

-----------------------------------------------------------------------------
(* Values of the bookkeeping variables. *)

Call(op, full, resolves) ==
    [op |-> op, full_feature_names |-> full, resolves |-> resolves]

Ended(kind, err, missing, view) ==
    [kind |-> kind, err |-> err, missing |-> missing, view |-> view]

ReturnedNormally == Ended("returned", "", <<>>, "")

Raised(err) == Ended("raised", err, <<>>, "")

FeatureNames(fs) == [i \in DOMAIN fs |-> fs[i].name]

-----------------------------------------------------------------------------
(* get_transformed_features_df *)

(* Variant: the prefix is the dict key instead of the feature view's name. *)
FullFeatureRefByKey(binding, feature) ==
    binding.key \o "__" \o feature.name

(* f"{input_fv.name}__{feature.name}" for the feature view of one entry of  *)
(* self.inputs.                                                             *)
FullFeatureRef(binding, feature) ==
    binding.fv.name \o "__" \o feature.name

(* The `if full_feature_ref in df_with_features.keys()` body: copy the      *)
(* prefixed column to the bare name and remember the bare name.             *)
CopyFeature(binding, feature, st) ==
    LET full_feature_ref == FullFeatureRef(binding, feature) IN
    IF full_feature_ref \in Keys(st.df)
    THEN [df |-> SetItem(st.df, feature.name,
                         GetItem(st.df, full_feature_ref).dtype,
                         GetItem(st.df, full_feature_ref).data),
          columns_to_cleanup |-> Append(st.columns_to_cleanup, feature.name)]
    ELSE st

(* for feature in input_fv.features *)
RECURSIVE CopyFeatures(_, _, _)
CopyFeatures(binding, features, st) ==
    IF features = <<>> THEN st
    ELSE CopyFeatures(binding, Tail(features),
                      CopyFeature(binding, Head(features), st))

(* for input_fv in self.inputs.values() *)
RECURSIVE CopyInputs(_, _)
CopyInputs(inputs, st) ==
    IF inputs = <<>> THEN st
    ELSE CopyInputs(Tail(inputs),
                    CopyFeatures(Head(inputs), Head(inputs).fv.features, st))

(* The frame and columns_to_cleanup when the udf is about to be called. *)
Prepared(self, full_feature_names, df_with_features) ==
    LET start == [df |-> df_with_features, columns_to_cleanup |-> <<>>] IN
    IF full_feature_names THEN CopyInputs(self.inputs, start) ELSE start

(* The cleanup statement: the frame object after                            *)
(* df_with_features.drop(columns=columns_to_cleanup, inplace=True).         *)
Cleanup(frame, columns_to_cleanup) == Drop(frame, columns_to_cleanup)

GetTransformedFeaturesDf ==
    \E full_feature_names \in BOOLEAN :
        LET st == Prepared(odfv, full_feature_names, df)
            r  == Udf(odfv.udf, st.df)
        IN  /\ call' = Call("get_transformed_features_df", full_feature_names, TRUE)
            /\ df_before' = df
            /\ odfv_before' = odfv
            /\ udf_arg' = st.df
            /\ IF r.raised
               THEN \* the udf's exception propagates; no statement after it runs
                    /\ df' = r.after
                    /\ udf_out' = <<>>
                    /\ ret' = <<>>
                    /\ outcome' = Raised(r.err)
               ELSE IF DropRaises(r.after, st.columns_to_cleanup)
               THEN /\ df' = r.after
                    /\ udf_out' = <<Returned(r)>>
                    /\ ret' = <<>>
                    /\ outcome' = Raised("KeyError")
               ELSE /\ df' = Cleanup(r.after, st.columns_to_cleanup)
                    /\ udf_out' = <<Returned(r)>>
                    /\ ret' = IF r.same THEN <<df'>> ELSE <<r.out>>
                    /\ outcome' = ReturnedNormally
            /\ UNCHANGED <<odfv, proto, encoded, inferred>>

-----------------------------------------------------------------------------
(* infer_features_from_batch_source *)

(* f"{feature_view.name}__{feature.name}" of the probe frame. *)
ProbeFeatureRef(binding, feature) ==
    binding.fv.name \o "__" \o feature.name

(* The two column assignments made for one feature. *)
ProbeFeature(binding, feature, frame) ==
    LET dtype == FeastValueTypeToPandasType[feature.dtype] IN
    SetItem(SetItem(frame, ProbeFeatureRef(binding, feature), dtype, 0),
            feature.name, dtype, 0)

RECURSIVE ProbeFeatures(_, _, _)
ProbeFeatures(binding, features, frame) ==
    IF features = <<>> THEN frame
    ELSE ProbeFeatures(binding, Tail(features),
                       ProbeFeature(binding, Head(features), frame))

RECURSIVE ProbeInputs(_, _)
ProbeInputs(inputs, frame) ==
    IF inputs = <<>> THEN frame
    ELSE ProbeInputs(Tail(inputs),
                     ProbeFeatures(Head(inputs), Head(inputs).fv.features,
                                   frame))

(* df = pd.DataFrame() filled by the two loops. *)
ProbeFrame(self) == ProbeInputs(self.inputs, <<>>)

(* Variant: the zip starts one column late. *)
InferredFeaturesSkipFirst(output_df) ==
    [i \in 1..(Len(output_df) - 1) |->
        Feature(output_df[i + 1].name,
                PythonTypeToFeastValueType[output_df[i + 1].dtype], {})]

(* inferred_features: one Feature per output column, in column order. *)
InferredFeatures(output_df) ==
    [i \in DOMAIN output_df |->
        Feature(output_df[i].name,
                PythonTypeToFeastValueType[output_df[i].dtype], {})]

(* Variant: membership decided by the feature's name alone. *)
MissingFeaturesByName(features, inferred_features) ==
    SelectSeq(features,
              LAMBDA f : f.name \notin Range(FeatureNames(inferred_features)))

(* missing_features: the specified features not in inferred_features. *)
MissingFeatures(features, inferred_features) ==
    SelectSeq(features, LAMBDA f : ~FeatureIn(f, inferred_features))

(* Variant: the final check never fires. *)
NoFeaturesUnchecked(features) == FALSE

(* Variant: the else branch taken unconditionally. *)
ReconciledFeaturesOverwrite(features, inferred_features) == inferred_features

(* `not self.features`, the test of the final check. *)
NoFeatures(features) == features = <<>>

(* self.features after the if/else at lines 160-170, when nothing raised.   *)
ReconciledFeatures(features, inferred_features) ==
    IF features # <<>> THEN features ELSE inferred_features

InferFeaturesFromBatchSource ==
    LET probe == ProbeFrame(odfv)
        r == Udf(odfv.udf, probe)
        inferred_features == InferredFeatures(Returned(r))
        missing_features == MissingFeatures(odfv.features, inferred_features)
        features == ReconciledFeatures(odfv.features, inferred_features)
    IN  /\ call' = Call("infer_features_from_batch_source", FALSE, TRUE)
        /\ df_before' = df
        /\ odfv_before' = odfv
        /\ udf_arg' = probe
        /\ ret' = <<>>
        /\ IF r.raised
           THEN /\ udf_out' = <<>>
                /\ outcome' = Raised(r.err)
                /\ UNCHANGED <<odfv, inferred>>
           ELSE /\ udf_out' = <<Returned(r)>>
                /\ IF odfv.features # <<>> /\ missing_features # <<>>
                   THEN /\ outcome' =
                              Ended("raised", "SpecifiedFeaturesNotPresentError",
                                    FeatureNames(missing_features), odfv.name)
                        /\ UNCHANGED <<odfv, inferred>>
                   ELSE /\ odfv' = [odfv EXCEPT !.features = features]
                        /\ IF NoFeatures(features)
                           THEN /\ outcome' =
                                      Ended("raised", "RegistryInferenceFailure",
                                            <<>>, odfv.name)
                                /\ UNCHANGED inferred
                           ELSE /\ outcome' = ReturnedNormally
                                /\ inferred' = TRUE
        /\ UNCHANGED <<df, proto, encoded>>

-----------------------------------------------------------------------------
(* to_proto / from_proto *)

(* The OnDemandFeatureViewProto built from the object's fields; the inputs  *)
(* field is a proto map, keyed by the dict key.                             *)
ToProtoValue(self) ==
    [spec |->
        [name |-> self.name,
         features |-> [i \in DOMAIN self.features |->
                          FeatureToProto(self.features[i])],
         inputs |-> [k \in {self.inputs[i].key : i \in DOMAIN self.inputs} |->
                        FeatureViewToProto(
                            (CHOOSE b \in Range(self.inputs) : b.key = k).fv)],
         user_defined_function |->
            [name |-> self.udf.name, body |-> DillDumps(self.udf)]]]

ToProto ==
    /\ proto' = <<ToProtoValue(odfv)>>
    /\ encoded' = <<odfv>>
    /\ call' = Call("to_proto", FALSE, TRUE)
    /\ outcome' = ReturnedNormally
    /\ ret' = proto'
    /\ df_before' = df
    /\ odfv_before' = odfv
    /\ udf_arg' = <<>>
    /\ udf_out' = <<>>
    /\ UNCHANGED <<odfv, df, inferred>>

(* The orders in which a proto map's items() may come. *)
ItemOrders(m) ==
    {s \in [1..Cardinality(DOMAIN m) -> DOMAIN m] :
        \A i, j \in DOMAIN s : i # j => s[i] # s[j]}

(* Variant: labels are not carried over. *)
FromProtoValueNoLabels(p, order) ==
    OnDemandFeatureView(
        p.spec.name,
        [i \in DOMAIN p.spec.features |->
            Feature(p.spec.features[i].name,
                    ValueTypeOf(p.spec.features[i].value_type), {})],
        [i \in DOMAIN order |->
            [key |-> order[i],
             fv |-> FeatureViewFromProto(p.spec.inputs[order[i]])]],
        DillLoads(p.spec.user_defined_function.body))

(* The object cls(...) builds from the proto, its map read in `order`. *)
FromProtoValue(p, order) ==
    OnDemandFeatureView(
        p.spec.name,
        [i \in DOMAIN p.spec.features |->
            Feature(p.spec.features[i].name,
                    ValueTypeOf(p.spec.features[i].value_type),
                    p.spec.features[i].labels)],
        [i \in DOMAIN order |->
            [key |-> order[i],
             fv |-> FeatureViewFromProto(p.spec.inputs[order[i]])]],
        DillLoads(p.spec.user_defined_function.body))

(* Variant: a failed dill.loads is swallowed and the object is built with   *)
(* the body's recorded function anyway.                                     *)
FromProtoOutcomesSwallowing(p, resolves) ==
    {[ret |-> <<FromProtoValue(p, order)>>, outcome |-> ReturnedNormally] :
        order \in ItemOrders(p.spec.inputs)}

(* The ways from_proto(p) can end, in a process that can (resolves) or       *)
(* cannot resolve what the serialized body refers to: dill.loads raises     *)
(* inside the argument list of cls(...), and nothing catches it.            *)
FromProtoOutcomes(p, resolves) ==
    IF resolves
    THEN {[ret |-> <<FromProtoValue(p, order)>>, outcome |-> ReturnedNormally] :
             order \in ItemOrders(p.spec.inputs)}
    ELSE {[ret |-> <<>>, outcome |-> Raised(err)] : err \in DillErrors}

FromProto ==
    /\ Len(proto) = 1
    /\ \E resolves \in BOOLEAN :
          /\ call' = Call("from_proto", FALSE, resolves)
          /\ \E end \in FromProtoOutcomes(proto[1], resolves) :
                /\ ret' = end.ret
                /\ outcome' = end.outcome
    /\ df_before' = df
    /\ odfv_before' = odfv
    /\ udf_arg' = <<>>
    /\ udf_out' = <<>>
    /\ UNCHANGED <<odfv, df, proto, encoded, inferred>>

-----------------------------------------------------------------------------
(* A definition as declared, and the retrieval frame its caller holds. *)
Init ==
    /\ odfv \in Definitions
    /\ df \in Frames
    /\ proto = <<>>
    /\ encoded = <<>>
    /\ call = Call("none", FALSE, TRUE)
    /\ outcome = Ended("none", "", <<>>, "")
    /\ ret = <<>>
    /\ df_before = df
    /\ odfv_before = odfv
    /\ udf_arg = <<>>
    /\ udf_out = <<>>
    /\ inferred = FALSE

Next ==
    \/ GetTransformedFeaturesDf
    \/ InferFeaturesFromBatchSource
    \/ ToProto
    \/ FromProto

Spec == Init /\ [][Next]_vars

-----------------------------------------------------------------------------
(* Properties. *)

IsApply == call.op = "get_transformed_features_df"

IsInfer == call.op = "infer_features_from_batch_source"

IsFromProto == call.op = "from_proto"

Returns == outcome.kind = "returned"

UdfReturned == Len(udf_out) = 1

(* C1: after get_transformed_features_df ends, by return or by raise, the   *)
(* caller's frame has the set of column names it had before the call.       *)
C1_ColumnSetRestored ==
    IsApply => Keys(df) = Keys(df_before)

(* C2: the frame get_transformed_features_df returns is the frame the udf   *)
(* returned as it was when the udf returned: cleanup removes no column of   *)
(* it and changes no value.                                                 *)
C2_OutputUntouched ==
    (IsApply /\ Returns) => ret[1] = udf_out[1]

(* The prefixed column names `key__feature` of a definition's inputs. *)
KeyPrefixed(self) ==
    UNION {{self.inputs[i].key \o "__" \o self.inputs[i].fv.features[j].name :
               j \in DOMAIN self.inputs[i].fv.features} :
           i \in DOMAIN self.inputs}

(* The feature name of which `col` is the prefixed form. *)
BareOf(self, col) ==
    CHOOSE n \in UNION {Range(FeatureNames(self.inputs[i].fv.features)) :
                           i \in DOMAIN self.inputs} :
        \E i \in DOMAIN self.inputs : self.inputs[i].key \o "__" \o n = col

(* The frame with, for each of its prefixed columns, the bare column of the *)
(* same values added.                                                       *)
RECURSIVE WithBare(_, _, _)
WithBare(self, cols, b) ==
    IF cols = <<>> THEN b
    ELSE WithBare(self, Tail(cols),
                  SetItem(b, BareOf(self, Head(cols).name),
                          Head(cols).dtype, Head(cols).data))

OnlyPrefixed(self, b) ==
    /\ Keys(b) \subseteq KeyPrefixed(self)
    /\ \A i, j \in DOMAIN b :
          i # j => BareOf(self, b[i].name) # BareOf(self, b[j].name)

(* C3: on a frame that holds only prefixed columns of the definition's      *)
(* inputs, get_transformed_features_df(full_feature_names=True) ends as     *)
(* the udf itself ends on that frame with the bare columns filled from the  *)
(* prefixed ones: the same frame returned, or both raise.                   *)
C3_PrefixTransparency ==
    (IsApply /\ call.full_feature_names /\ OnlyPrefixed(odfv, df_before)) =>
        LET raw == Udf(odfv.udf, WithBare(odfv, df_before, df_before)) IN
        IF raw.raised THEN outcome.kind = "raised"
        ELSE Returns /\ ret[1] = Returned(raw)

(* The declared features that have no output column of the same name. *)
AbsentByName ==
    SelectSeq(odfv_before.features,
              LAMBDA f : f.name \notin Keys(udf_out[1]))

(* The declared features that have no output column of the same name whose  *)
(* native type maps to the feature's value type.                            *)
AbsentByNameAndType ==
    SelectSeq(odfv_before.features,
              LAMBDA f : ~\E i \in DOMAIN udf_out[1] :
                  /\ udf_out[1][i].name = f.name
                  /\ PythonTypeToFeastValueType[udf_out[1][i].dtype] = f.dtype)

NotPresentError(absent) ==
    Ended("raised", "SpecifiedFeaturesNotPresentError", FeatureNames(absent),
          odfv_before.name)

(* C4 as stated: with declared features, infer fails with                   *)
(* SpecifiedFeaturesNotPresentError exactly when a declared name is absent  *)
(* from the probe output's column names, whatever the declared value type,  *)
(* and the error lists those names and the definition's name.               *)
C4_MissingDecidedByName ==
    (IsInfer /\ odfv_before.features # <<>> /\ UdfReturned) =>
        IF AbsentByName # <<>>
        THEN outcome = NotPresentError(AbsentByName)
        ELSE outcome.err # "SpecifiedFeaturesNotPresentError"

(* C4 amended: with declared features, infer fails with                     *)
(* SpecifiedFeaturesNotPresentError exactly when a declared feature has no  *)
(* probe output column of the same name and the same value type; the error  *)
(* lists the names of exactly those features, in declared order, and the    *)
(* definition's name.                                                       *)
C4_MissingDecidedByNameAndType ==
    (IsInfer /\ odfv_before.features # <<>> /\ UdfReturned) =>
        IF AbsentByNameAndType # <<>>
        THEN outcome = NotPresentError(AbsentByNameAndType)
        ELSE outcome.err # "SpecifiedFeaturesNotPresentError"

(* A declared feature is reported missing although a probe output column    *)
(* carries its name.                                                        *)
C4_Witness ==
    /\ IsInfer
    /\ UdfReturned
    /\ outcome.err = "SpecifiedFeaturesNotPresentError"
    /\ \E i \in DOMAIN outcome.missing : outcome.missing[i] \in Keys(udf_out[1])

(* C5: infer on a definition with no declared features whose probe run      *)
(* returns at least one column returns normally and leaves features equal   *)
(* to one Feature per output column, in column order, named as the column   *)
(* and typed by the native-type-to-value-type map.                          *)
C5_InferenceCompleteness ==
    (IsInfer /\ odfv_before.features = <<>> /\ UdfReturned
        /\ Len(udf_out[1]) >= 1) =>
        /\ Returns
        /\ Len(odfv.features) = Len(udf_out[1])
        /\ \A i \in DOMAIN udf_out[1] :
              /\ odfv.features[i].name = udf_out[1][i].name
              /\ odfv.features[i].dtype =
                    PythonTypeToFeastValueType[udf_out[1][i].dtype]

(* An inference from nothing over a probe output of several columns. *)
C5_Witness ==
    /\ IsInfer
    /\ odfv_before.features = <<>>
    /\ UdfReturned
    /\ Len(udf_out[1]) >= 2
    /\ Returns

(* C6: infer never returns normally with empty features; with no declared   *)
(* features and a probe output of zero columns it fails with                *)
(* RegistryInferenceFailure naming the definition.                          *)
C6_InferPostcondition ==
    /\ (IsInfer /\ Returns) => odfv.features # <<>>
    /\ (IsInfer /\ odfv_before.features = <<>> /\ UdfReturned
           /\ Len(udf_out[1]) = 0) =>
          outcome = Ended("raised", "RegistryInferenceFailure", <<>>,
                          odfv_before.name)

(* Nothing declared, nothing produced: the inference failure is raised. *)
C6_Witness ==
    /\ IsInfer
    /\ odfv_before.features = <<>>
    /\ UdfReturned
    /\ Len(udf_out[1]) = 0
    /\ outcome.err = "RegistryInferenceFailure"

InputKeys(self) == {self.inputs[i].key : i \in DOMAIN self.inputs}

FeatureViewAt(self, k) == (CHOOSE b \in Range(self.inputs) : b.key = k).fv

LastCopied(self, f, frame) ==
    LET hits == {i \in DOMAIN self.inputs :
                    /\ f \in Range(FeatureNames(self.inputs[i].fv.features))
                    /\ self.inputs[i].fv.name \o "__" \o f \in Keys(frame)}
    IN  self.inputs[CHOOSE i \in hits : \A j \in hits : j <= i].fv

C9_MalformedDefinition ==
    (IsFromProto /\ ~call.resolves) =>
        /\ outcome.kind = "raised"
        /\ outcome.err = "MalformedDefinition"
        /\ ret = <<>>

(* C9 amended: from_proto of a proto whose body the process cannot resolve  *)
(* raises, returns no definition, and the error is the one dill.loads       *)
(* raised, passed on unchanged.                                             *)
C9_LoadErrorPropagates ==
    (IsFromProto /\ ~call.resolves) =>
        /\ outcome.kind = "raised"
        /\ outcome.err \in DillErrors
        /\ ret = <<>>

(* A decode attempted where the body cannot be resolved. *)
C9_Witness ==
    /\ IsFromProto
    /\ ~call.resolves
    /\ outcome.kind = "raised"

(* C10: the object changes only by an infer that returns normally on empty  *)
(* features, which sets features (to a non-empty value) and nothing else;   *)
(* so features change at most once, and every other infer, every apply and *)
(* every to_proto leaves name, features, inputs and udf as they were.  Once *)
(* an infer has returned normally, every later infer returns normally and   *)
(* changes nothing.                                                         *)
C10_FeaturesSetAtMostOnce ==
    [][/\ odfv' # odfv =>
             /\ odfv.features = <<>>
             /\ call'.op = "infer_features_from_batch_source"
             /\ outcome'.kind = "returned"
             /\ odfv'.features # <<>>
             /\ odfv' = [odfv EXCEPT !.features = odfv'.features]
       /\ (inferred /\ call'.op = "infer_features_from_batch_source") =>
             /\ outcome'.kind = "returned"
             /\ odfv' = odfv]_vars

(* A second infer has returned normally on features that an earlier infer   *)
(* had set.                                                                 *)
C10_Witness ==
    /\ IsInfer
    /\ Returns
    /\ inferred
    /\ odfv_before.features \notin DeclaredFeatures
    /\ odfv = odfv_before

=============================================================================
